---- MODULE Spec2Model ----
(***************************************************************************)
(* Catalog editor (src/src/App.tsx): record collection, quality analyzer,  *)
(* view pipeline, memoized table rows and the guarded edit session.        *)
(*                                                                         *)
(* A JavaScript string is modelled as a sequence of one-character strings, *)
(* so that toLowerCase, includes, trim and localeCompare are computed and  *)
(* not assumed.  A React state cell that may hold null holds NULL.         *)
(***************************************************************************)
EXTENDS Integers, Sequences, FiniteSets, TLC

\* ------------------------------------------------------------------------
\* Bounds of the model
\* ------------------------------------------------------------------------
MaxProducts == 2

\* the longest dataset analysed in the analysis specification
MaxRecords == 3

\* the longest dataset displayed in the view specification
MaxViewRecords == 3

\* the most rows the generic CSV editor holds
MaxCsvRows == 2

\* ------------------------------------------------------------------------
\* Strings
\* ------------------------------------------------------------------------
NULL == [null |-> TRUE]

\* null in a cell that otherwise holds a field name
NoField == "null"

Lower(c) ==
  CASE c = "A" -> "a"
    [] c = "B" -> "b"
    [] c = "X" -> "x"
    [] OTHER -> c

toLowerCase(s) == [i \in 1..Len(s) |-> Lower(s[i])]

includes(s, t) ==
  \E i \in 0..(Len(s) - Len(t)) : SubSeq(s, i + 1, i + Len(t)) = t

RECURSIVE trimStart(_)
trimStart(s) ==
  IF s # <<>> /\ Head(s) = " " THEN trimStart(Tail(s)) ELSE s

RECURSIVE trimEnd(_)
trimEnd(s) ==
  IF s # <<>> /\ s[Len(s)] = " " THEN trimEnd(SubSeq(s, 1, Len(s) - 1)) ELSE s

trim(s) == trimEnd(trimStart(s))

\* collation order of the characters used by the model
Alphabet == <<" ", "-", "/", ",", "0", "5", "a", "A", "b", "B", "c", "d", "e",
              "f", "g", "h", "i", "j", "k", "m", "n", "N", "p", "q", "r", "s",
              "t", "u", "v", "w", "x", "X", "y", "z">>

Rank(c) == CHOOSE i \in 1..Len(Alphabet) : Alphabet[i] = c

\* a.localeCompare(b): negative, zero or positive
RECURSIVE localeCompare(_, _)
localeCompare(a, b) ==
  IF a = <<>> /\ b = <<>> THEN 0
  ELSE IF a = <<>> THEN -1
  ELSE IF b = <<>> THEN 1
  ELSE IF Rank(Head(a)) < Rank(Head(b)) THEN -1
  ELSE IF Rank(Head(a)) > Rank(Head(b)) THEN 1
  ELSE localeCompare(Tail(a), Tail(b))

\* JavaScript's  a || b  on strings: the empty string is falsy
Or(a, b) == IF a # <<>> THEN a ELSE b

\* ------------------------------------------------------------------------
\* Record model
\* ------------------------------------------------------------------------
Fields == {"slug", "title", "image", "image_alt", "gender", "price_15ml",
           "price_30ml", "price_50ml", "brand", "top_notes", "heart_notes",
           "base_notes", "link", "stock_status"}

Product(slug, title, brand) ==
  [slug |-> slug, title |-> title, image |-> <<"i">>, image_alt |-> <<>>,
   gender |-> <<"m">>, price_15ml |-> <<"5">>, price_30ml |-> <<"5">>,
   price_50ml |-> <<"5">>, brand |-> brand, top_notes |-> <<"n">>,
   heart_notes |-> <<>>, base_notes |-> <<>>, link |-> <<>>,
   stock_status |-> <<"s">>]

Range(seq) == {seq[i] : i \in 1..Len(seq)}

\* Map.prototype.set on a map modelled as a function
EmptyMap == [k \in {} |-> k]

MapSet(m, k, v) == [x \in (DOMAIN m) \cup {k} |-> IF x = k THEN v ELSE m[x]]

\* ------------------------------------------------------------------------
\* Quality Analyzer and Duplicate Grouping (checkDataQuality)
\* ------------------------------------------------------------------------
PaletteSize == 17

duplicateColors ==
  <<"#ef4444", "#f97316", "#f59e0b", "#eab308", "#84cc16", "#22c55e",
    "#10b981", "#14b8a6", "#06b6d4", "#0ea5e9", "#3b82f6", "#6366f1",
    "#8b5cf6", "#a855f7", "#d946ef", "#ec4899", "#f43f5e">>

slugCounts(productsData, slug) ==
  Cardinality({i \in 1..Len(productsData) :
                 toLowerCase(productsData[i].slug) = slug})

titleCounts(productsData, title) ==
  Cardinality({i \in 1..Len(productsData) :
                 toLowerCase(productsData[i].title) = title})

\* variant: within one record the title key is colored before the slug key
RECURSIVE assignColors_titleFirst(_, _, _, _)
assignColors_titleFirst(productsData, i, groups, colorIndex) ==
  IF i > Len(productsData) THEN groups
  ELSE
    LET slug == toLowerCase(productsData[i].slug)
        title == toLowerCase(productsData[i].title)
        newTitle == titleCounts(productsData, title) > 1 /\ title \notin DOMAIN groups
        g1 == IF newTitle
              THEN MapSet(groups, title,
                          duplicateColors[(colorIndex % PaletteSize) + 1])
              ELSE groups
        c1 == IF newTitle THEN colorIndex + 1 ELSE colorIndex
        newSlug == slugCounts(productsData, slug) > 1 /\ slug \notin DOMAIN g1
        g2 == IF newSlug
              THEN MapSet(g1, slug, duplicateColors[(c1 % PaletteSize) + 1])
              ELSE g1
        c2 == IF newSlug THEN c1 + 1 ELSE c1
    IN assignColors_titleFirst(productsData, i + 1, g2, c2)

\* second pass: one map shared by slug keys and title keys, one color index
RECURSIVE assignColors(_, _, _, _)
assignColors(productsData, i, groups, colorIndex) ==
  IF i > Len(productsData) THEN groups
  ELSE
    LET slug == toLowerCase(productsData[i].slug)
        title == toLowerCase(productsData[i].title)
        newSlug == slugCounts(productsData, slug) > 1 /\ slug \notin DOMAIN groups
        g1 == IF newSlug
              THEN MapSet(groups, slug,
                          duplicateColors[(colorIndex % PaletteSize) + 1])
              ELSE groups
        c1 == IF newSlug THEN colorIndex + 1 ELSE colorIndex
        newTitle == titleCounts(productsData, title) > 1 /\ title \notin DOMAIN g1
        g2 == IF newTitle
              THEN MapSet(g1, title, duplicateColors[(c1 % PaletteSize) + 1])
              ELSE g1
        c2 == IF newTitle THEN c1 + 1 ELSE c1
    IN assignColors(productsData, i + 1, g2, c2)

\* the value stored in window.duplicateGroups by checkDataQuality
duplicateGroupsOf(productsData) == assignColors(productsData, 1, EmptyMap, 0)

\* variant: the value is compared without being trimmed
isInvalidPrice_noTrim(price) ==
  \/ price = <<>>
  \/ price \in {<<>>, <<"-">>, <<"0">>, <<"N", "/", "A">>}

\* if (!price) return true; else price.trim() is '', '-', '0' or 'N/A'
isInvalidPrice(price) ==
  \/ price = <<>>
  \/ trim(price) \in {<<>>, <<"-">>, <<"0">>, <<"N", "/", "A">>}

isBlank(s) == s = <<>> \/ trim(s) = <<>>

Tag(cond, tag) == IF cond THEN <<tag>> ELSE <<>>

\* variant: the no-prices check runs right after the three price checks
productIssues_pricesTogether(productsData, product) ==
  LET hasDuplicateSlug ==
        slugCounts(productsData, toLowerCase(product.slug)) > 1
      hasDuplicateTitle ==
        titleCounts(productsData, toLowerCase(product.title)) > 1
      hasAnyPrice == \/ ~isInvalidPrice(product.price_15ml)
                     \/ ~isInvalidPrice(product.price_30ml)
                     \/ ~isInvalidPrice(product.price_50ml)
  IN    Tag(hasDuplicateSlug \/ hasDuplicateTitle, "duplicate")
     \o Tag(isInvalidPrice(product.price_15ml), "no-price-15ml")
     \o Tag(isInvalidPrice(product.price_30ml), "no-price-30ml")
     \o Tag(isInvalidPrice(product.price_50ml), "no-price-50ml")
     \o Tag(~hasAnyPrice, "no-prices")
     \o Tag(isBlank(product.image), "no-image")
     \o Tag(/\ isBlank(product.top_notes)
            /\ isBlank(product.heart_notes)
            /\ isBlank(product.base_notes), "no-notes")
     \o Tag(isBlank(product.brand), "no-brand")
     \o Tag(isBlank(product.slug), "no-slug")
     \o Tag(isBlank(product.title), "no-title")

\* third pass, one record: the tags in the order the code pushes them
productIssues(productsData, product) ==
  LET hasDuplicateSlug ==
        slugCounts(productsData, toLowerCase(product.slug)) > 1
      hasDuplicateTitle ==
        titleCounts(productsData, toLowerCase(product.title)) > 1
      hasAnyPrice == \/ ~isInvalidPrice(product.price_15ml)
                     \/ ~isInvalidPrice(product.price_30ml)
                     \/ ~isInvalidPrice(product.price_50ml)
  IN    Tag(hasDuplicateSlug \/ hasDuplicateTitle, "duplicate")
     \o Tag(isInvalidPrice(product.price_15ml), "no-price-15ml")
     \o Tag(isInvalidPrice(product.price_30ml), "no-price-30ml")
     \o Tag(isInvalidPrice(product.price_50ml), "no-price-50ml")
     \o Tag(isBlank(product.image), "no-image")
     \o Tag(/\ isBlank(product.top_notes)
            /\ isBlank(product.heart_notes)
            /\ isBlank(product.base_notes), "no-notes")
     \o Tag(isBlank(product.brand), "no-brand")
     \o Tag(isBlank(product.slug), "no-slug")
     \o Tag(isBlank(product.title), "no-title")
     \o Tag(~hasAnyPrice, "no-prices")

\* key under which checkDataQuality stores a record's tags
identity(product) == Or(product.slug, Or(product.title, <<"u", "n", "k", "n", "o", "w", "n">>))

\* key under which the view looks a record's tags up
lookupKey(product) == Or(product.slug, Or(product.title, <<>>))

RECURSIVE collectIssues(_, _, _)
collectIssues(productsData, i, issues) ==
  IF i > Len(productsData) THEN issues
  ELSE
    LET tags == productIssues(productsData, productsData[i])
    IN collectIssues(productsData, i + 1,
                     IF Len(tags) > 0
                     THEN MapSet(issues, identity(productsData[i]), tags)
                     ELSE issues)

\* the map returned by checkDataQuality
checkDataQuality(productsData) == collectIssues(productsData, 1, EmptyMap)

\* ------------------------------------------------------------------------
\* Exact-Duplicate Collapse
\* ------------------------------------------------------------------------
\* the composite key: JSON.stringify of the 14 fields in a fixed order
productHash(p) ==
  <<p.title, p.slug, p.image, p.image_alt, p.gender, p.price_15ml,
    p.price_30ml, p.price_50ml, p.brand, p.top_notes, p.heart_notes,
    p.base_notes, p.link, p.stock_status>>

\* Papa.unparse of an array of objects: one header row with the keys of the
\* first object, then one row of field values per object, in that key order
Columns ==
  <<"slug", "title", "image", "image_alt", "gender", "price_15ml",
    "price_30ml", "price_50ml", "brand", "top_notes", "heart_notes",
    "base_notes", "link", "stock_status">>

unparse(data) ==
  IF data = <<>> THEN <<>>
  ELSE <<Columns>> \o
       [i \in 1..Len(data) |-> [c \in 1..Len(Columns) |-> data[i][Columns[c]]]]

\* variant: the last occurrence of a composite key is the one kept
RECURSIVE uniqueProductsOf_keepsLast(_, _, _)
uniqueProductsOf_keepsLast(productsData, i, seen) ==
  IF i > Len(productsData) THEN <<>>
  ELSE IF \E j \in (i + 1)..Len(productsData) :
            productHash(productsData[j]) = productHash(productsData[i])
       THEN uniqueProductsOf_keepsLast(productsData, i + 1, seen)
       ELSE <<productsData[i]>> \o
            uniqueProductsOf_keepsLast(productsData, i + 1, seen)

\* variant: the walk stops filtering after the first discarded record
RECURSIVE uniqueProductsOf_dropsOne(_, _, _)
uniqueProductsOf_dropsOne(productsData, i, seen) ==
  IF i > Len(productsData) THEN <<>>
  ELSE IF productHash(productsData[i]) \in seen
       THEN SubSeq(productsData, i + 1, Len(productsData))
       ELSE <<productsData[i]>> \o
            uniqueProductsOf_dropsOne(productsData, i + 1,
                                      seen \cup {productHash(productsData[i])})

RECURSIVE uniqueProductsOf(_, _, _)
uniqueProductsOf(productsData, i, seen) ==
  IF i > Len(productsData) THEN <<>>
  ELSE IF productHash(productsData[i]) \in seen
       THEN uniqueProductsOf(productsData, i + 1, seen)
       ELSE <<productsData[i]>> \o
            uniqueProductsOf(productsData, i + 1,
                             seen \cup {productHash(productsData[i])})

RECURSIVE countDuplicates(_, _, _)
countDuplicates(productsData, i, seen) ==
  IF i > Len(productsData) THEN 0
  ELSE IF productHash(productsData[i]) \in seen
       THEN 1 + countDuplicates(productsData, i + 1, seen)
       ELSE countDuplicates(productsData, i + 1,
                            seen \cup {productHash(productsData[i])})

detectCompleteDuplicates(productsData) == countDuplicates(productsData, 1, {})

\* ------------------------------------------------------------------------
\* View Pipeline (filteredProducts)
\* ------------------------------------------------------------------------
matchesSearch(product, term) ==
  \/ includes(toLowerCase(product.title), toLowerCase(term))
  \/ includes(toLowerCase(product.brand), toLowerCase(term))
  \/ includes(toLowerCase(product.slug), toLowerCase(term))

\* variant: the anchor is compared without case folding
matchesDuplicateFilter_caseSensitive(product, anchor) ==
  \/ product.slug = anchor
  \/ product.title = anchor

matchesDuplicateFilter(product, anchor) ==
  \/ toLowerCase(product.slug) = toLowerCase(anchor)
  \/ toLowerCase(product.title) = toLowerCase(anchor)

\* variant: the two "duplicates first" returns are missing
sortCompare_noPartition(filtered, a, b) ==
  LET aSlug == toLowerCase(a.slug)
      bSlug == toLowerCase(b.slug)
      aTitle == toLowerCase(a.title)
      bTitle == toLowerCase(b.title)
      aSlugDup == slugCounts(filtered, aSlug) > 1
      bSlugDup == slugCounts(filtered, bSlug) > 1
      aTitleDup == titleCounts(filtered, aTitle) > 1
      bTitleDup == titleCounts(filtered, bTitle) > 1
  IN IF aSlugDup /\ bSlugDup
     THEN (IF aSlug = bSlug THEN 0 ELSE localeCompare(aSlug, bSlug))
     ELSE IF aTitleDup /\ bTitleDup
          THEN (IF aTitle = bTitle THEN 0 ELSE localeCompare(aTitle, bTitle))
     ELSE 0

\* the comparator passed to filtered.sort
sortCompare(filtered, a, b) ==
  LET aSlug == toLowerCase(a.slug)
      bSlug == toLowerCase(b.slug)
      aTitle == toLowerCase(a.title)
      bTitle == toLowerCase(b.title)
      aSlugDup == slugCounts(filtered, aSlug) > 1
      bSlugDup == slugCounts(filtered, bSlug) > 1
      aTitleDup == titleCounts(filtered, aTitle) > 1
      bTitleDup == titleCounts(filtered, bTitle) > 1
      aHasDup == aSlugDup \/ aTitleDup
      bHasDup == bSlugDup \/ bTitleDup
  IN IF aHasDup /\ ~bHasDup THEN -1
     ELSE IF ~aHasDup /\ bHasDup THEN 1
     ELSE IF aSlugDup /\ bSlugDup
          THEN (IF aSlug = bSlug THEN 0 ELSE localeCompare(aSlug, bSlug))
     ELSE IF aTitleDup /\ bTitleDup
          THEN (IF aTitle = bTitle THEN 0 ELSE localeCompare(aTitle, bTitle))
     ELSE 0

\* binary search of the insertion point of pivot in sorted[left+1 .. right]
RECURSIVE insertionPoint(_, _, _, _, _)
insertionPoint(filtered, sorted, pivot, left, right) ==
  IF left >= right THEN left
  ELSE
    LET mid == left + ((right - left) \div 2)
    IN IF sortCompare(filtered, pivot, sorted[mid + 1]) < 0
       THEN insertionPoint(filtered, sorted, pivot, left, mid)
       ELSE insertionPoint(filtered, sorted, pivot, mid + 1, right)

\* variant: the inserted element is written twice
insertAt_repeats(sorted, at, pivot) ==
  SubSeq(sorted, 1, at) \o <<pivot, pivot>> \o SubSeq(sorted, at + 1, Len(sorted))

insertAt(sorted, at, pivot) ==
  SubSeq(sorted, 1, at) \o <<pivot>> \o SubSeq(sorted, at + 1, Len(sorted))

\* Array.prototype.sort on a short array: stable binary insertion sort.
\* (The one-element sets bind each intermediate array once it is computed.)
RECURSIVE insertionSort(_, _, _)
insertionSort(filtered, sorted, i) ==
  IF i > Len(filtered) THEN sorted
  ELSE CHOOSE result \in
         {insertionSort(filtered, next, i + 1) :
            next \in {insertAt(sorted, at, filtered[i]) :
                        at \in {insertionPoint(filtered, sorted, filtered[i],
                                               0, Len(sorted))}}} : TRUE

sortGrouped(filtered) == insertionSort(filtered, <<>>, 1)

applyFilters(productsData, term, qualityFilter, anchor, issues) ==
  LET searched == SelectSeq(productsData, LAMBDA p : matchesSearch(p, term))
  IN IF qualityFilter
     THEN IF anchor # NULL /\ anchor.value # <<>>
          THEN SelectSeq(searched,
                         LAMBDA p : matchesDuplicateFilter(p, anchor.value))
          ELSE SelectSeq(searched, LAMBDA p : lookupKey(p) \in DOMAIN issues)
     ELSE searched

filteredProductsOf(productsData, term, qualityFilter, anchor, issues) ==
  CHOOSE view \in
    {sortGrouped(filtered) :
       filtered \in {applyFilters(productsData, term, qualityFilter, anchor,
                                  issues)}} : TRUE

\* ------------------------------------------------------------------------
\* Note-tag sub-editor helpers
\* ------------------------------------------------------------------------
\* String.prototype.split(',')
RECURSIVE splitComma(_, _)
splitComma(s, cur) ==
  IF s = <<>> THEN <<cur>>
  ELSE IF Head(s) = "," THEN <<cur>> \o splitComma(Tail(s), <<>>)
  ELSE splitComma(Tail(s), Append(cur, Head(s)))

\* Array.prototype.join(', ')
RECURSIVE joinComma(_)
joinComma(parts) ==
  IF parts = <<>> THEN <<>>
  ELSE IF Len(parts) = 1 THEN parts[1]
  ELSE parts[1] \o <<",", " ">> \o joinComma(Tail(parts))

\* currentNotes ? currentNotes.split(',').map(n => n.trim()) : []
notesArrayOf(currentNotes) ==
  IF currentNotes = <<>> THEN <<>>
  ELSE LET parts == splitComma(currentNotes, <<>>)
       IN [i \in 1..Len(parts) |-> trim(parts[i])]

\* the tags rendered in the detail view
parseNotes(notesString) ==
  SelectSeq(notesArrayOf(notesString), LAMBDA n : n # <<>>)

fieldMap(field) ==
  CASE field = "top" -> "top_notes"
    [] field = "heart" -> "heart_notes"
    [] field = "base" -> "base_notes"

\* ------------------------------------------------------------------------
\* Inputs of the model
\* ------------------------------------------------------------------------
R1 == Product(<<"a">>, <<"x">>, <<"k">>)
R2 == Product(<<"b">>, <<"y">>, <<"k">>)
R3 == Product(<<"a">>, <<"z">>, <<"k">>)

ProductPool == {R1, R2, R3}

\* the datasets main.csv may hold
Catalogs ==
  {<<>>, <<R1>>, <<R1, R2>>, <<R1, R3>>, <<R1, R1>>, <<R1, R2, R3>>}

Datasets == {d \in Catalogs : Len(d) <= MaxProducts}

\* the dataset used where the note and image editors are exercised
FieldDatasets == {<<R1>>}

\* records with defects: a slug that differs from A1's by case only, a record
\* without slug whose title is A1's slug, a record with every field blank, and
\* a record that shares A1's title up to case and lacks one price
A1 == Product(<<"a">>, <<"x">>, <<"k">>)
A2 == Product(<<"A">>, <<"y">>, <<"k">>)
A3 == Product(<<>>, <<"a">>, <<"k">>)
A4 ==
  [Product(<<>>, <<>>, <<" ">>) EXCEPT
     !.image = <<>>, !.price_15ml = <<"-">>, !.price_30ml = <<" ", "0">>,
     !.price_50ml = <<>>, !.top_notes = <<" ">>]
A5 == [Product(<<"b">>, <<"X">>, <<"k">>) EXCEPT !.price_15ml = <<"-">>]

AnalysisPool == {A1, A2, A3, A4, A5}

RECURSIVE SeqsUpTo(_, _)
SeqsUpTo(pool, n) ==
  IF n = 0 THEN {<<>>}
  ELSE LET shorter == SeqsUpTo(pool, n - 1)
       IN shorter \cup {Append(d, r) : d \in {x \in shorter : Len(x) = n - 1},
                                       r \in pool}

AnalysisDatasets == SeqsUpTo(AnalysisPool, MaxRecords)

\* a record whose slug and title are the same string, A1's slug and A3's title
A6 == Product(<<"a">>, <<"a">>, <<"k">>)

\* the datasets of the view specification: clusters by slug, by title, by both
ViewPool == {A1, A2, A3, A5}

ViewDatasets == SeqsUpTo(ViewPool, MaxViewRecords)

\* a dataset with one more cluster key than the palette has colors: nine
\* records with slugs c, d, ... and titles n, p, ..., each of them twice
PaletteSlugs == <<"c", "d", "e", "f", "g", "h", "i", "j", "m">>
PaletteTitles == <<"n", "p", "q", "r", "s", "t", "u", "v", "w">>

PaletteDataset ==
  LET pairs == (PaletteSize + 1) \div 2
  IN [i \in 1..(2 * pairs) |->
        Product(<<PaletteSlugs[((i - 1) % pairs) + 1]>>,
                <<PaletteTitles[((i - 1) % pairs) + 1]>>, <<"k">>)]

\* the datasets of the coloring specification: a slug key and a title key
\* that are the same string, and the palette running out
ColorPool == {A1, A2, A3, A6}

ColorDatasets == SeqsUpTo(ColorPool, MaxViewRecords) \cup {PaletteDataset}

\* price cells: empty, blank, the three placeholders (one of them padded),
\* a price, and a placeholder in the wrong case
PriceValues ==
  {<<>>, <<" ">>, <<"-">>, <<" ", "0", " ">>, <<"N", "/", "A">>, <<"5">>,
   <<"n", "/", "a">>}

\* one record per dataset, every combination of price cells
PriceDatasets ==
  {<<[A1 EXCEPT !.price_15ml = p15, !.price_30ml = p30, !.price_50ml = p50]>> :
     p15 \in PriceValues, p30 \in PriceValues, p50 \in PriceValues}

\* what a user has in the search box while typing "ab" and deleting it
TypedTerms == {<<>>, <<"a">>, <<"a", "b">>}

\* the datasets of the search specification: "a" matches A1 and not A5
SearchDatasets == SeqsUpTo({A1, A5}, MaxRecords)

\* what a user types into the search box
SearchTerms == {<<>>, <<"A">>}

\* the values a user types into a field of the detail view
EditInputs ==
  {<<"slug", <<"a">>>>, <<"slug", <<"b">>>>,
   <<"brand", <<"k">>>>, <<"brand", <<"m">>>>}

FieldEditInputs == {<<"brand", <<"k">>>>, <<"brand", <<"m">>>>}

\* the note catalog offered by the note selector, and the fields it is opened for
NoteTitles == {<<"p">>}
NoteFields == {"top"}

\* the image reference produced by the cropper
CroppedUrl == <<"j">>

\* ------------------------------------------------------------------------
\* State
\* ------------------------------------------------------------------------
VARIABLES
  isLoading,          \* useState(true)
  products,           \* the record collection
  selectedProduct,    \* Product or NULL
  editedProduct,      \* the draft: Product or NULL
  hasUnsavedChanges,  \* the dirty flag
  showConfirmModal,   \* the discard confirmation is open
  pendingAction,      \* the queued closure, as data, or NULL
  showDetailPanel,
  showCropModal,      \* showCropModal && cropImage
  showNoteSelector,   \* "top" | "heart" | "base" | NULL
  dataQualityIssues,  \* Map identity -> tags
  duplicateGroups,    \* window.duplicateGroups
  completeDuplicates,
  searchTerm,
  debouncedSearchTerm,
  timers,             \* the values of the useDebounce timeouts that are pending
  showQualityFilter,
  duplicateFilter,    \* the duplicate anchor [value |-> string], or NULL
  rows,               \* the mounted TableRow instances, with what each closed over
  outcome,            \* what the last handler showed or handed out: alert, download
  draftOrigin,        \* history: the record the draft was created from, or NULL
  last,               \* history: the event that led to this state
  csvData,            \* CSVEditor: [headers, rows]
  filteredRows,       \* CSVEditor: the rows handed to TableView
  editingCell,        \* CSVEditor: [row, col] or NULL
  csvSearchTerm,      \* CSVEditor: searchTerm
  selectedRows,       \* CSVEditor: Set<number>
  checkedRecords,     \* history: the records whose checkbox the user checked
  csvLast             \* history: the CSVEditor event that led to this state

\* the state of App
appVars == <<isLoading, products, selectedProduct, editedProduct,
             hasUnsavedChanges, showConfirmModal, pendingAction, showDetailPanel,
             showCropModal, showNoteSelector, dataQualityIssues, duplicateGroups,
             completeDuplicates, searchTerm, debouncedSearchTerm, timers,
             showQualityFilter, duplicateFilter, rows, outcome, draftOrigin,
             last>>

\* the state of CSVEditor
csvVars == <<csvData, filteredRows, editingCell, csvSearchTerm, selectedRows,
             checkedRecords, csvLast>>

vars == <<appVars, csvVars>>

sessionVars == <<selectedProduct, editedProduct, hasUnsavedChanges,
                 showConfirmModal, pendingAction, showDetailPanel>>

analysisVars == <<dataQualityIssues, duplicateGroups, completeDuplicates>>

modalVars == <<showCropModal, showNoteSelector>>

viewVars == <<searchTerm, debouncedSearchTerm, timers, showQualityFilter, duplicateFilter>>

\* const currentProduct = editedProduct || selectedProduct
currentProduct == IF editedProduct # NULL THEN editedProduct ELSE selectedProduct

\* the detail view is rendered
DetailOpen == ~isLoading /\ showDetailPanel /\ selectedProduct # NULL

\* the bottom-right popup with Discard / Save is rendered
PopupOpen == ~isLoading /\ hasUnsavedChanges /\ ~showConfirmModal

\* the discard confirmation is rendered
ConfirmOpen == ~isLoading /\ showConfirmModal

\* ------------------------------------------------------------------------
\* The table: memoized TableRow instances
\* ------------------------------------------------------------------------
\* filteredProducts of the current state; nothing is mounted while loading
View ==
  IF isLoading THEN <<>>
  ELSE filteredProductsOf(products, debouncedSearchTerm, showQualityFilter,
                          duplicateFilter, dataQualityIssues)

\* issues={dataQualityIssues.get(product.slug || product.title || '') || []}
issuesFor(issues, product) ==
  IF lookupKey(product) \in DOMAIN issues THEN issues[lookupKey(product)] ELSE <<>>

\* const duplicateColor = slugColor || titleColor
colorFor(groups, product) ==
  IF toLowerCase(product.slug) \in DOMAIN groups
  THEN groups[toLowerCase(product.slug)]
  ELSE IF toLowerCase(product.title) \in DOMAIN groups
       THEN groups[toLowerCase(product.title)]
       ELSE "undefined"

\* the props App passes to the row at position i
rowProps(view, issues, groups, i) ==
  [product |-> view[i], issues |-> issuesFor(issues, view[i]),
   duplicateColor |-> colorFor(groups, view[i])]

\* the comparator given to memo (the index is the position, equal by construction)
arePropsEqual(prevProps, nextProps) ==
  /\ prevProps.product.slug = nextProps.product.slug
  /\ prevProps.issues = nextProps.issues
  /\ prevProps.duplicateColor = nextProps.duplicateColor

\* One App render.  The key of a row is product.slug + '-' + index: the row at
\* position i survives when the slug at i is the same, and is then re-rendered
\* only if the comparator says the props differ.  A row that is not re-rendered
\* keeps the product and the onClick (hence the hasUnsavedChanges that
\* handleProductClick closed over) of its last render.
renderRows(mounted, prevView, prevIssues, prevGroups, nextView, nextIssues, nextGroups, dirty) ==
  [i \in 1..Len(nextView) |->
     LET next == rowProps(nextView, nextIssues, nextGroups, i)
     IN IF /\ i <= Len(prevView)
           /\ prevView[i].slug = nextView[i].slug
           /\ arePropsEqual(rowProps(prevView, prevIssues, prevGroups, i), next)
        THEN mounted[i]
        ELSE [product |-> next.product, issues |-> next.issues,
              onClickDirty |-> dirty]]

Render ==
  \E prevView \in {View}, nextView \in {View'} :
    rows' = renderRows(rows, prevView, dataQualityIssues, duplicateGroups,
                       nextView, dataQualityIssues', duplicateGroups',
                       hasUnsavedChanges')

\* ------------------------------------------------------------------------
\* History: the event that produced the state, and what held when it fired
\* ------------------------------------------------------------------------
pendingKind == IF pendingAction = NULL THEN "none" ELSE pendingAction.kind

\* shown: for a press of the issues-only button, the view that was on screen
\* with issues-only on before the current run of consecutive presses
Event(op, acted) ==
  [op |-> op, acted |-> acted, dirty |-> hasUnsavedChanges,
   pending |-> pendingKind,
   slugEdited |-> /\ editedProduct # NULL
                  /\ selectedProduct # NULL
                  /\ editedProduct.slug # selectedProduct.slug,
   shown |-> IF op # "toggleFilter" THEN NULL
             ELSE IF showQualityFilter
                  THEN [view |-> View]
             ELSE IF last.op = "toggleFilter" THEN last.shown
             ELSE NULL]

\* no alert was shown and nothing was downloaded
NoOutcome == [alert |-> NULL, download |-> NULL]

Track(op, acted) ==
  /\ last' = Event(op, acted)
  /\ UNCHANGED csvVars
  /\ draftOrigin' = IF editedProduct' = NULL THEN NULL
                    ELSE IF editedProduct = NULL THEN selectedProduct
                    ELSE draftOrigin

\* ------------------------------------------------------------------------
\* Initial state and load
\* ------------------------------------------------------------------------
Init ==
  /\ isLoading = TRUE
  /\ products = <<>>
  /\ selectedProduct = NULL
  /\ editedProduct = NULL
  /\ hasUnsavedChanges = FALSE
  /\ showConfirmModal = FALSE
  /\ pendingAction = NULL
  /\ showDetailPanel = FALSE
  /\ showCropModal = FALSE
  /\ showNoteSelector = NoField
  /\ dataQualityIssues = EmptyMap
  /\ duplicateGroups = EmptyMap
  /\ completeDuplicates = 0
  /\ searchTerm = <<>>
  /\ debouncedSearchTerm = <<>>
  /\ timers = {<<>>}
  /\ showQualityFilter = FALSE
  /\ duplicateFilter = NULL
  /\ rows = <<>>
  /\ outcome = NoOutcome
  /\ draftOrigin = NULL
  /\ last = Event("init", TRUE)
  /\ csvData = [headers |-> <<"name">>, rows |-> <<>>]
  /\ filteredRows = <<>>
  /\ editingCell = NULL
  /\ csvSearchTerm = <<>>
  /\ selectedRows = {}
  /\ checkedRecords = {}
  /\ csvLast = [op |-> "init", row |-> -1, value |-> NULL, acted |-> TRUE]

\* preloadData: both CSVs parsed, images preloaded, state replaced at once
preloadData(datasets) ==
  /\ isLoading
  /\ \E productsData \in datasets, notesHaveImages \in BOOLEAN :
       LET allImages == {productsData[i].image : i \in 1..Len(productsData)} \ {<<>>}
           noImages == allImages = {} /\ ~notesHaveImages
       IN /\ products' = productsData
          /\ IF noImages
             THEN UNCHANGED analysisVars
             ELSE /\ dataQualityIssues' = checkDataQuality(productsData)
                  /\ duplicateGroups' = duplicateGroupsOf(productsData)
                  /\ completeDuplicates' = detectCompleteDuplicates(productsData)
  /\ isLoading' = FALSE
  /\ UNCHANGED <<sessionVars, modalVars, viewVars>>
  /\ outcome' = NoOutcome
  /\ Render
  /\ Track("load", TRUE)

\* the catch branch of preloadData
preloadDataFailed ==
  /\ isLoading
  /\ isLoading' = FALSE
  /\ UNCHANGED <<products, sessionVars, modalVars, viewVars, analysisVars>>
  /\ outcome' = NoOutcome
  /\ Render
  /\ Track("loadFailed", TRUE)

\* ------------------------------------------------------------------------
\* Edit session: the handlers
\* ------------------------------------------------------------------------
\* variant: the draft is written but the dirty flag is not raised
handleProductUpdate_noDirty(field, value) ==
  IF currentProduct = NULL
  THEN UNCHANGED <<editedProduct, hasUnsavedChanges>>
  ELSE /\ editedProduct' = [currentProduct EXCEPT ![field] = value]
       /\ UNCHANGED hasUnsavedChanges

\* setEditedProduct(prev => { const current = prev || selectedProduct; ... })
handleProductUpdate(field, value) ==
  IF currentProduct = NULL
  THEN UNCHANGED <<editedProduct, hasUnsavedChanges>>
  ELSE /\ editedProduct' = [currentProduct EXCEPT ![field] = value]
       /\ hasUnsavedChanges' = TRUE

\* variant: the entry is looked up by the draft's own slug
saveMap_byDraftSlug(prevProducts, selected, edited) ==
  [i \in 1..Len(prevProducts) |->
     IF prevProducts[i].slug = edited.slug THEN edited ELSE prevProducts[i]]

\* prevProducts.map(p => p.slug === selectedProduct.slug ? editedProduct : p)
saveMap(prevProducts, selected, edited) ==
  [i \in 1..Len(prevProducts) |->
     IF prevProducts[i].slug = selected.slug THEN edited ELSE prevProducts[i]]

\* the body of a queued closure
runPending(action) ==
  IF action.kind = "select"
  THEN /\ selectedProduct' = action.product
       /\ editedProduct' = NULL
       /\ showDetailPanel' = TRUE
  ELSE /\ showDetailPanel' = FALSE
       /\ selectedProduct' = NULL
       /\ editedProduct' = NULL

\* variant: the queued navigation is executed after the merge
handleSaveChanges_runsPending ==
  IF editedProduct # NULL /\ selectedProduct # NULL
  THEN /\ products' = saveMap(products, selectedProduct, editedProduct)
       /\ hasUnsavedChanges' = FALSE
       /\ showConfirmModal' = FALSE
       /\ IF pendingAction # NULL
          THEN /\ runPending(pendingAction)
               /\ pendingAction' = NULL
          ELSE /\ selectedProduct' = editedProduct
               /\ editedProduct' = NULL
               /\ UNCHANGED <<showDetailPanel, pendingAction>>
  ELSE UNCHANGED <<products, sessionVars>>

handleSaveChanges ==
  IF editedProduct # NULL /\ selectedProduct # NULL
  THEN /\ products' = saveMap(products, selectedProduct, editedProduct)
       /\ selectedProduct' = editedProduct
       /\ editedProduct' = NULL
       /\ hasUnsavedChanges' = FALSE
       /\ UNCHANGED <<showConfirmModal, pendingAction, showDetailPanel>>
  ELSE UNCHANGED <<products, sessionVars>>

\* variant: the queued closure is forgotten instead of being called
handleDiscardChanges_dropsPending ==
  /\ hasUnsavedChanges' = FALSE
  /\ showConfirmModal' = FALSE
  /\ editedProduct' = NULL
  /\ pendingAction' = NULL
  /\ UNCHANGED <<selectedProduct, showDetailPanel, products>>

handleDiscardChanges ==
  /\ hasUnsavedChanges' = FALSE
  /\ showConfirmModal' = FALSE
  /\ IF pendingAction # NULL
     THEN /\ runPending(pendingAction)
          /\ pendingAction' = NULL
     ELSE /\ editedProduct' = NULL
          /\ UNCHANGED <<selectedProduct, showDetailPanel, pendingAction>>
  /\ UNCHANGED products

handleCloseWithCheck ==
  /\ IF hasUnsavedChanges
     THEN /\ pendingAction' = [kind |-> "close"]
          /\ showConfirmModal' = TRUE
          /\ UNCHANGED <<selectedProduct, editedProduct, showDetailPanel>>
     ELSE /\ showDetailPanel' = FALSE
          /\ selectedProduct' = NULL
          /\ editedProduct' = NULL
          /\ UNCHANGED <<pendingAction, showConfirmModal>>
  /\ UNCHANGED <<products, hasUnsavedChanges>>

\* dirty is the hasUnsavedChanges the invoked closure was created with
handleProductClick(product, dirty) ==
  /\ IF dirty
     THEN /\ pendingAction' = [kind |-> "select", product |-> product]
          /\ showConfirmModal' = TRUE
          /\ UNCHANGED <<selectedProduct, editedProduct, showDetailPanel>>
     ELSE /\ selectedProduct' = product
          /\ editedProduct' = NULL
          /\ showDetailPanel' = TRUE
          /\ UNCHANGED <<pendingAction, showConfirmModal>>
  /\ UNCHANGED <<products, hasUnsavedChanges>>

\* the Cancel button of the discard confirmation
cancelConfirm ==
  /\ showConfirmModal' = FALSE
  /\ UNCHANGED <<products, selectedProduct, editedProduct, hasUnsavedChanges,
                 pendingAction, showDetailPanel>>

\* products.filter(p => p.slug !== product.slug)
deleteFilter(prevProducts, product) ==
  SelectSeq(prevProducts, LAMBDA p : p.slug # product.slug)

handleDeleteProduct(product) ==
  LET updatedProducts == deleteFilter(products, product)
  IN /\ products' = updatedProducts
     /\ IF selectedProduct # NULL /\ selectedProduct.slug = product.slug
        THEN /\ selectedProduct' = (IF Len(updatedProducts) > 0
                                    THEN updatedProducts[1] ELSE NULL)
             /\ showDetailPanel' = FALSE
        ELSE UNCHANGED <<selectedProduct, showDetailPanel>>
     /\ UNCHANGED <<editedProduct, hasUnsavedChanges, showConfirmModal,
                    pendingAction>>

\* addNoteToField(note.Title, showNoteSelector)
addNoteToField(noteTitle, field) ==
  IF currentProduct = NULL
  THEN UNCHANGED <<editedProduct, hasUnsavedChanges, showNoteSelector>>
  ELSE LET notesArray == notesArrayOf(currentProduct[fieldMap(field)])
       IN /\ IF noteTitle \notin Range(notesArray)
             THEN handleProductUpdate(fieldMap(field),
                                      joinComma(Append(notesArray, noteTitle)))
             ELSE UNCHANGED <<editedProduct, hasUnsavedChanges>>
          /\ showNoteSelector' = NoField

\* removeNoteFromField(note, field)
removeNoteFromField(noteTitle, field) ==
  IF currentProduct = NULL
  THEN UNCHANGED <<editedProduct, hasUnsavedChanges>>
  ELSE LET notesArray == notesArrayOf(currentProduct[fieldMap(field)])
       IN handleProductUpdate(fieldMap(field),
            joinComma(SelectSeq(notesArray, LAMBDA n : n # noteTitle)))

\* getCroppedImg: Crop & Save
getCroppedImg ==
  IF selectedProduct = NULL
  THEN UNCHANGED <<editedProduct, hasUnsavedChanges, showCropModal>>
  ELSE /\ handleProductUpdate("image", CroppedUrl)
       /\ showCropModal' = FALSE

\* variant: the export and the report are made whatever the count
removeCompleteDuplicates_alwaysExports ==
  LET uniqueProducts == uniqueProductsOf(products, 1, {})
      removedCount == Len(products) - Len(uniqueProducts)
  IN /\ products' = uniqueProducts
     /\ dataQualityIssues' = checkDataQuality(uniqueProducts)
     /\ duplicateGroups' = duplicateGroupsOf(uniqueProducts)
     /\ UNCHANGED completeDuplicates
     /\ outcome' = [alert |-> [kind |-> "removed", count |-> removedCount],
                    download |-> [name |-> "main_cleaned.csv",
                                  csv |-> unparse(uniqueProducts)]]
     /\ UNCHANGED sessionVars

\* variant: the collection is replaced without re-checking data quality
removeCompleteDuplicates_staleAnalysis ==
  LET uniqueProducts == uniqueProductsOf(products, 1, {})
      removedCount == Len(products) - Len(uniqueProducts)
  IN /\ IF removedCount > 0
        THEN /\ products' = uniqueProducts
             /\ UNCHANGED analysisVars
             /\ outcome' = [alert |-> [kind |-> "removed", count |-> removedCount],
                            download |-> [name |-> "main_cleaned.csv",
                                          csv |-> unparse(uniqueProducts)]]
        ELSE /\ UNCHANGED <<products, analysisVars>>
             /\ outcome' = [alert |-> [kind |-> "none"], download |-> NULL]
     /\ UNCHANGED sessionVars

\* the Delete N Duplicates button of the quality banner
removeCompleteDuplicates ==
  LET uniqueProducts == uniqueProductsOf(products, 1, {})
      removedCount == Len(products) - Len(uniqueProducts)
  IN /\ IF removedCount > 0
        THEN /\ products' = uniqueProducts
             /\ dataQualityIssues' = checkDataQuality(uniqueProducts)
             /\ duplicateGroups' = duplicateGroupsOf(uniqueProducts)
             /\ UNCHANGED completeDuplicates
             /\ outcome' = [alert |-> [kind |-> "removed", count |-> removedCount],
                            download |-> [name |-> "main_cleaned.csv",
                                          csv |-> unparse(uniqueProducts)]]
        ELSE /\ UNCHANGED <<products, analysisVars>>
             /\ outcome' = [alert |-> [kind |-> "none"], download |-> NULL]
     /\ UNCHANGED sessionVars

\* ------------------------------------------------------------------------
\* The user events
\* ------------------------------------------------------------------------
\* what no handler of the edit session touches
otherVars == <<isLoading, analysisVars, viewVars, outcome>>

\* what a field mutation leaves alone
mutationFrame == <<products, selectedProduct, showConfirmModal, pendingAction,
                   showDetailPanel>>

\* <tr onClick={() => onClick(product)}> of the mounted row i
RowClick(i) ==
  /\ ~isLoading
  /\ i \in 1..Len(rows)
  /\ handleProductClick(rows[i].product, rows[i].onClickDirty)
  /\ UNCHANGED <<otherVars, modalVars>>
  /\ Render
  /\ Track("click", TRUE)

\* the overlay and the close button of the detail view
CloseClick ==
  /\ DetailOpen
  /\ handleCloseWithCheck
  /\ UNCHANGED <<otherVars, modalVars>>
  /\ Render
  /\ Track("close", TRUE)

\* typing into an input of the detail view
FieldInput(field, value) ==
  /\ DetailOpen
  /\ value # currentProduct[field]
  /\ handleProductUpdate(field, value)
  /\ UNCHANGED <<mutationFrame, otherVars, modalVars>>
  /\ Render
  /\ Track("update", TRUE)

\* the Add Note button of a note field
OpenNoteSelector(field) ==
  /\ DetailOpen
  /\ showNoteSelector' = field
  /\ UNCHANGED <<products, sessionVars, otherVars, showCropModal>>
  /\ Render
  /\ Track("openNoteSelector", TRUE)

CloseNoteSelector ==
  /\ ~isLoading
  /\ showNoteSelector # NoField
  /\ showNoteSelector' = NoField
  /\ UNCHANGED <<products, sessionVars, otherVars, showCropModal>>
  /\ Render
  /\ Track("closeNoteSelector", TRUE)

\* a note of the catalog is picked in the note selector
AddNote(noteTitle) ==
  /\ ~isLoading
  /\ showNoteSelector # NoField
  /\ addNoteToField(noteTitle, showNoteSelector)
  /\ UNCHANGED <<mutationFrame, otherVars, showCropModal>>
  /\ Render
  /\ Track("addNote", editedProduct' # editedProduct)

\* the remove button of a rendered note tag
RemoveNote(noteTitle, field) ==
  /\ DetailOpen
  /\ noteTitle \in Range(parseNotes(currentProduct[fieldMap(field)]))
  /\ removeNoteFromField(noteTitle, field)
  /\ UNCHANGED <<mutationFrame, otherVars, modalVars>>
  /\ Render
  /\ Track("removeNote", TRUE)

\* handleImageUpload: a file is chosen, the crop modal opens
ImageUpload ==
  /\ DetailOpen
  /\ showCropModal' = TRUE
  /\ UNCHANGED <<products, sessionVars, otherVars, showNoteSelector>>
  /\ Render
  /\ Track("imageUpload", TRUE)

CropCancel ==
  /\ ~isLoading
  /\ showCropModal
  /\ showCropModal' = FALSE
  /\ UNCHANGED <<products, sessionVars, otherVars, showNoteSelector>>
  /\ Render
  /\ Track("cropCancel", TRUE)

CropSave ==
  /\ ~isLoading
  /\ showCropModal
  /\ getCroppedImg
  /\ UNCHANGED <<mutationFrame, otherVars, showNoteSelector>>
  /\ Render
  /\ Track("crop", selectedProduct # NULL)

\* Yadda Saxla in the unsaved-changes popup
SaveClick ==
  /\ PopupOpen
  /\ handleSaveChanges
  /\ UNCHANGED <<otherVars, modalVars>>
  /\ Render
  /\ Track("save", editedProduct # NULL /\ selectedProduct # NULL)

\* Discard, in the unsaved-changes popup or in the discard confirmation
DiscardClick ==
  /\ PopupOpen \/ ConfirmOpen
  /\ handleDiscardChanges
  /\ UNCHANGED <<otherVars, modalVars>>
  /\ Render
  /\ Track("discard", TRUE)

CancelClick ==
  /\ ConfirmOpen
  /\ cancelConfirm
  /\ UNCHANGED <<otherVars, modalVars>>
  /\ Render
  /\ Track("cancel", TRUE)

\* the delete button of the detail view; window.confirm answers yes or no
DeleteClick(confirmed) ==
  /\ DetailOpen
  /\ IF confirmed
     THEN handleDeleteProduct(currentProduct)
     ELSE UNCHANGED <<products, sessionVars>>
  /\ UNCHANGED <<otherVars, modalVars>>
  /\ Render
  /\ Track("delete", confirmed)

RemoveDuplicatesClick ==
  /\ ~isLoading
  /\ completeDuplicates > 0
  /\ removeCompleteDuplicates
  /\ UNCHANGED <<isLoading, modalVars, viewVars>>
  /\ Render
  /\ Track("removeDuplicates", Len(products') < Len(products))

\* ------------------------------------------------------------------------
\* Search box and quality banner
\* ------------------------------------------------------------------------
viewFrame == <<isLoading, products, sessionVars, modalVars, analysisVars, outcome>>

\* the banner is rendered: dataQualityIssues.size > 0 || completeDuplicates > 0
BannerShown ==
  ~isLoading /\ (DOMAIN dataQualityIssues # {} \/ completeDuplicates > 0)

\* variant: the effect of useDebounce has no cleanup
SearchInput_noCleanup(term) ==
  /\ ~isLoading
  /\ term # searchTerm
  /\ searchTerm' = term
  /\ timers' = timers \cup {term}
  /\ UNCHANGED <<debouncedSearchTerm, showQualityFilter, duplicateFilter, viewFrame>>
  /\ Render
  /\ Track("search", TRUE)

\* onChange of the search box: handleSearch(term).  App renders with the new
\* value, so the effect of useDebounce runs again: its cleanup clears the
\* timeout set for the previous value, then a timeout is set for the new one.
SearchInput(term) ==
  /\ ~isLoading
  /\ term # searchTerm
  /\ searchTerm' = term
  /\ timers' = (timers \ {searchTerm}) \cup {term}
  /\ UNCHANGED <<debouncedSearchTerm, showQualityFilter, duplicateFilter, viewFrame>>
  /\ Render
  /\ Track("search", TRUE)

\* a pending timeout fires: setDebouncedValue(value), value as it was when
\* the timeout was set
timerFires(value) ==
  /\ value \in timers
  /\ debouncedSearchTerm' = value
  /\ timers' = timers \ {value}
  /\ UNCHANGED <<searchTerm, showQualityFilter, duplicateFilter, viewFrame>>
  /\ Render
  /\ Track("debounce", TRUE)

\* the timer of useDebounce(searchTerm, 150) fires
DebounceFire == \E value \in timers : timerFires(value)

\* variant: the button leaves the anchor alone
ToggleQualityFilter_keepsAnchor ==
  /\ BannerShown
  /\ showQualityFilter' = ~showQualityFilter
  /\ UNCHANGED <<duplicateFilter, searchTerm, debouncedSearchTerm, timers, viewFrame>>
  /\ Render
  /\ Track("toggleFilter", TRUE)

\* the Show Issues Only / Show All button
ToggleQualityFilter ==
  /\ BannerShown
  /\ showQualityFilter' = ~showQualityFilter
  /\ duplicateFilter' = NULL
  /\ UNCHANGED <<searchTerm, debouncedSearchTerm, timers, viewFrame>>
  /\ Render
  /\ Track("toggleFilter", TRUE)

\* the Clear Filter button, rendered while duplicateFilter is truthy
ClearFilter ==
  /\ BannerShown
  /\ duplicateFilter # NULL /\ duplicateFilter.value # <<>>
  /\ duplicateFilter' = NULL
  /\ showQualityFilter' = FALSE
  /\ UNCHANGED <<searchTerm, debouncedSearchTerm, timers, viewFrame>>
  /\ Render
  /\ Track("clearFilter", TRUE)

\* variant: the anchor is the title when there is one, else the slug
DuplicateTagClick_titleFirst(i) ==
  /\ ~isLoading
  /\ i \in 1..Len(rows)
  /\ "duplicate" \in Range(rows[i].issues)
  /\ duplicateFilter' = [value |-> Or(rows[i].product.title, rows[i].product.slug)]
  /\ showQualityFilter' = TRUE
  /\ UNCHANGED <<searchTerm, debouncedSearchTerm, timers, viewFrame>>
  /\ Render
  /\ Track("duplicateTag", TRUE)

\* click on the duplicate tag of the mounted row i:
\* onDuplicateClick('slug', product.slug || product.title)
DuplicateTagClick(i) ==
  /\ ~isLoading
  /\ i \in 1..Len(rows)
  /\ "duplicate" \in Range(rows[i].issues)
  /\ duplicateFilter' = [value |-> Or(rows[i].product.slug, rows[i].product.title)]
  /\ showQualityFilter' = TRUE
  /\ UNCHANGED <<searchTerm, debouncedSearchTerm, timers, viewFrame>>
  /\ Render
  /\ Track("duplicateTag", TRUE)

\* The edit session: navigation, typed edits, save, discard, delete, collapse
Next ==
  \/ preloadData(Datasets)
  \/ preloadDataFailed
  \/ \E i \in 1..MaxProducts : RowClick(i)
  \/ CloseClick
  \/ \E e \in EditInputs : FieldInput(e[1], e[2])
  \/ SaveClick
  \/ DiscardClick
  \/ CancelClick
  \/ \E c \in BOOLEAN : DeleteClick(c)
  \/ RemoveDuplicatesClick

Spec == Init /\ [][Next]_vars

\* The edit session with the note selector and the image cropper
NextFields ==
  \/ preloadData(FieldDatasets)
  \/ \E i \in 1..MaxProducts : RowClick(i)
  \/ CloseClick
  \/ \E e \in FieldEditInputs : FieldInput(e[1], e[2])
  \/ \E f \in NoteFields : OpenNoteSelector(f)
  \/ CloseNoteSelector
  \/ \E n \in NoteTitles : AddNote(n)
  \/ \E n \in NoteTitles, f \in NoteFields : RemoveNote(n, f)
  \/ ImageUpload
  \/ CropCancel
  \/ CropSave
  \/ SaveClick
  \/ DiscardClick
  \/ CancelClick
  \/ \E c \in BOOLEAN : DeleteClick(c)

SpecFields == Init /\ [][NextFields]_vars

\* Load, analysis, collapse and the view controls
NextAnalysis ==
  \/ preloadData(AnalysisDatasets)
  \/ \E term \in SearchTerms : SearchInput(term)
  \/ DebounceFire
  \/ ToggleQualityFilter
  \/ ClearFilter
  \/ \E i \in 1..MaxRecords : DuplicateTagClick(i)
  \/ RemoveDuplicatesClick

SpecAnalysis == Init /\ [][NextAnalysis]_vars

\* Load and the view controls: search, issues-only, anchor
NextView ==
  \/ preloadData(ViewDatasets)
  \/ \E term \in SearchTerms : SearchInput(term)
  \/ DebounceFire
  \/ ToggleQualityFilter
  \/ ClearFilter
  \/ \E i \in 1..MaxViewRecords : DuplicateTagClick(i)

SpecView == Init /\ [][NextView]_vars

\* the table over datasets that exercise the cluster colors
NextColors ==
  \/ preloadData(ColorDatasets)
  \/ \E term \in SearchTerms : SearchInput(term)
  \/ DebounceFire
  \/ ToggleQualityFilter
  \/ ClearFilter
  \/ \E i \in 1..MaxViewRecords : DuplicateTagClick(i)

SpecColors == Init /\ [][NextColors]_vars

\* the Analyzer over every combination of price cells
NextPrices ==
  \/ preloadData(PriceDatasets)
  \/ ToggleQualityFilter

SpecPrices == Init /\ [][NextPrices]_vars

\* the search box and its debounce timer
NextSearch ==
  \/ preloadData(SearchDatasets)
  \/ \E term \in TypedTerms : SearchInput(term)
  \/ DebounceFire

\* a timeout that is not cleared fires, 150 ms after it was set
SpecSearch ==
  Init /\ [][NextSearch]_vars /\ \A value \in TypedTerms : WF_vars(timerFires(value))

TypeOK == Len(rows) = Len(View)

\* ------------------------------------------------------------------------
\* The generic CSV editor (CSVEditor, TableView, SearchFilter)
\* ------------------------------------------------------------------------
\* A row of csvData.rows. The tables of the model have the one column "name";
\* id is the identity of the record, which is not a column and which no code
\* reads: it tells two records apart when an edit gives them the same cells.
CsvRow(id, name) == [id |-> id, name |-> name]

CsvNames == {<<"a">>, <<"b">>}

\* what a parse hands to setCsvData: at least one row
CsvDatasets ==
  UNION {{[headers |-> <<"name">>, rows |-> [i \in 1..n |-> CsvRow(i, f[i])]] : f \in [1..n -> CsvNames]} : n \in 1..MaxCsvRows}

\* what is typed into the search box of SearchFilter
CsvTerms == {<<>>, <<"a">>, <<"B">>}

idsOf(rowsIn) == {rowsIn[k].id : k \in 1..Len(rowsIn)}

\* Object.values(row).some(value => String(value).toLowerCase().includes(term))
rowMatches(row, term) == includes(toLowerCase(row.name), term)

\* the effect on [searchTerm, csvData]
filterRows(rowsIn, term) ==
  IF trim(term) = <<>> THEN rowsIn
  ELSE SelectSeq(rowsIn, LAMBDA row : rowMatches(row, toLowerCase(term)))

\* the effect runs after every change of csvData or of the search term
filterEffect == filteredRows' = filterRows(csvData'.rows, csvSearchTerm')

\* rows.map((row, rowIndex) => ...): the indices of the rows TableView renders
displayedIndices == 0..(Len(filteredRows) - 1)

CsvTrack(op, row, value, acted) ==
  /\ csvLast' = [op |-> op, row |-> row, value |-> value, acted |-> acted]
  /\ UNCHANGED appVars

\* the cell input loses the focus to the control that is used next
onBlur == editingCell' = NULL

\* setCsvData(data) of the loader and of the import
setCsvData(data) ==
  /\ csvData' = data
  /\ UNCHANGED <<csvSearchTerm, selectedRows, editingCell>>
  /\ filterEffect
  /\ checkedRecords' = {}
  /\ CsvTrack("setCsvData", -1, NULL, TRUE)

\* SearchFilter: onChange(e.target.value), and onChange('') of the clear button
setSearchTerm(term) ==
  /\ csvSearchTerm' = term
  /\ onBlur
  /\ UNCHANGED <<csvData, selectedRows, checkedRecords>>
  /\ filterEffect
  /\ CsvTrack("setSearchTerm", -1, NULL, TRUE)

\* onDoubleClick of a data cell of displayed row rowIndex
CellDoubleClick(rowIndex) ==
  /\ rowIndex \in displayedIndices
  /\ editingCell' = [row |-> rowIndex, col |-> "name"]
  /\ UNCHANGED <<csvData, csvSearchTerm, selectedRows, checkedRecords, filteredRows>>
  /\ CsvTrack("doubleClick", rowIndex, NULL, TRUE)

\* onBlur, Enter and Escape of the cell input
CellInputLeave ==
  /\ editingCell # NULL
  /\ onBlur
  /\ UNCHANGED <<csvData, csvSearchTerm, selectedRows, checkedRecords, filteredRows>>
  /\ CsvTrack("leave", -1, NULL, TRUE)

\* handleCellChange(rowIndex, column, value): newRows[rowIndex] is replaced
handleCellChange(rowIndex, column, value) ==
  /\ csvData' = [csvData EXCEPT !.rows[rowIndex + 1][column] = value]
  /\ UNCHANGED <<csvSearchTerm, selectedRows, checkedRecords, editingCell>>
  /\ filterEffect
  /\ CsvTrack("cellChange", rowIndex, value, TRUE)

\* onChange of the input that TableView renders in the cell being edited
CellInput(value) ==
  /\ editingCell # NULL
  /\ editingCell.row \in displayedIndices
  /\ value # filteredRows[editingCell.row + 1][editingCell.col]
  /\ handleCellChange(editingCell.row, editingCell.col, value)

\* handleAddRow: a row with every cell empty is appended
handleAddRow ==
  /\ Len(csvData.rows) < MaxCsvRows
  /\ LET id == CHOOSE n \in 1..MaxCsvRows : n \notin idsOf(csvData.rows)
     IN csvData' = [csvData EXCEPT !.rows = Append(@, CsvRow(id, <<>>))]
  /\ onBlur
  /\ UNCHANGED <<csvSearchTerm, selectedRows, checkedRecords>>
  /\ filterEffect
  /\ CsvTrack("addRow", -1, NULL, TRUE)

\* csvData.rows.filter((_, i) => !(i in indices))
withoutIndices(rowsIn, indices) ==
  LET RECURSIVE keep(_)
      keep(k) == IF k > Len(rowsIn) THEN <<>>
                 ELSE (IF (k - 1) \in indices THEN <<>> ELSE <<rowsIn[k]>>) \o keep(k + 1)
  IN keep(1)

\* the delete button of displayed row rowIndex, then handleDeleteRow(rowIndex)
handleDeleteRow(rowIndex, confirmed) ==
  /\ rowIndex \in displayedIndices
  /\ IF confirmed
     THEN csvData' = [csvData EXCEPT !.rows = withoutIndices(@, {rowIndex})]
     ELSE UNCHANGED csvData
  /\ onBlur
  /\ UNCHANGED <<csvSearchTerm, selectedRows>>
  /\ filterEffect
  /\ checkedRecords' = checkedRecords \cap idsOf(csvData'.rows)
  /\ CsvTrack("deleteRow", rowIndex, NULL, confirmed)

\* the checkbox of displayed row rowIndex, then handleSelectRow(rowIndex)
handleSelectRow(rowIndex) ==
  /\ rowIndex \in displayedIndices
  /\ selectedRows' = IF rowIndex \in selectedRows THEN selectedRows \ {rowIndex}
                     ELSE selectedRows \cup {rowIndex}
  /\ checkedRecords' = IF rowIndex \in selectedRows
                       THEN checkedRecords \ {filteredRows[rowIndex + 1].id}
                       ELSE checkedRecords \cup {filteredRows[rowIndex + 1].id}
  /\ onBlur
  /\ UNCHANGED <<csvData, csvSearchTerm, filteredRows>>
  /\ CsvTrack("selectRow", rowIndex, NULL, TRUE)

\* the checkbox of the header row
handleSelectAll ==
  /\ IF Cardinality(selectedRows) = Len(filteredRows)
     THEN selectedRows' = {} /\ checkedRecords' = {}
     ELSE selectedRows' = displayedIndices /\ checkedRecords' = idsOf(filteredRows)
  /\ onBlur
  /\ UNCHANGED <<csvData, csvSearchTerm, filteredRows>>
  /\ CsvTrack("selectAll", -1, NULL, TRUE)

\* the button Delete Selected, rendered while selectedRows.size > 0
handleDeleteSelected(confirmed) ==
  /\ selectedRows # {}
  /\ IF confirmed
     THEN /\ csvData' = [csvData EXCEPT !.rows = withoutIndices(@, selectedRows)]
          /\ selectedRows' = {}
          /\ checkedRecords' = {}
     ELSE UNCHANGED <<csvData, selectedRows, checkedRecords>>
  /\ onBlur
  /\ UNCHANGED csvSearchTerm
  /\ filterEffect
  /\ CsvTrack("deleteSelected", -1, NULL, confirmed)

NextCsv ==
  \/ \E data \in CsvDatasets : setCsvData(data)
  \/ \E term \in CsvTerms : setSearchTerm(term)
  \/ \E rowIndex \in 0..(MaxCsvRows - 1) : CellDoubleClick(rowIndex)
  \/ CellInputLeave
  \/ \E value \in CsvNames : CellInput(value)
  \/ handleAddRow
  \/ \E rowIndex \in 0..(MaxCsvRows - 1), confirmed \in BOOLEAN : handleDeleteRow(rowIndex, confirmed)
  \/ \E rowIndex \in 0..(MaxCsvRows - 1) : handleSelectRow(rowIndex)
  \/ handleSelectAll
  \/ \E confirmed \in BOOLEAN : handleDeleteSelected(confirmed)

SpecCsv == Init /\ [][NextCsv]_vars

\* ------------------------------------------------------------------------
\* Properties of the edit session
\* ------------------------------------------------------------------------
Saved == last'.op = "save" /\ last'.acted

\* C1: Save with selection S and a draft D whose slug was edited replaces the
\* entries whose slug is S.slug (the original slug, not D.slug) by D: the
\* collection keeps its length, D stands wherever S stood, every entry with
\* another slug is untouched, and S is no longer in the collection.
C1_SaveReplacesOriginalSlug ==
  [][(Saved /\ last'.slugEdited) =>
       /\ Len(products') = Len(products)
       /\ \A i \in 1..Len(products) :
            products'[i] = IF products[i].slug = selectedProduct.slug
                           THEN editedProduct ELSE products[i]
       /\ \A i \in 1..Len(products) :
            products[i] = selectedProduct => products'[i] = editedProduct
       /\ selectedProduct \notin Range(products')]_vars

\* a draft with an edited slug has been saved over an entry of the collection
C1_Witness ==
  /\ last.op = "save" /\ last.acted /\ last.slugEdited
  /\ selectedProduct \in Range(products)

\* C2: while dirty, a row click or a close only queues the action and opens
\* the confirmation, leaving selection, draft, dirty flag, panel and collection
\* unchanged; while not dirty the same click or close takes effect at once.
C2_DirtyNavigationOnlyQueues ==
  [][last'.op \in {"click", "close"} =>
       IF hasUnsavedChanges
       THEN /\ UNCHANGED <<selectedProduct, editedProduct, hasUnsavedChanges,
                           showDetailPanel, products>>
            /\ showConfirmModal'
            /\ pendingAction' # NULL
       ELSE /\ UNCHANGED <<pendingAction, showConfirmModal>>
            /\ editedProduct' = NULL
            /\ last'.op = "close" => selectedProduct' = NULL /\ ~showDetailPanel'
            /\ last'.op = "click" => selectedProduct' # NULL /\ showDetailPanel']_vars

\* C3: Discard with a queued navigation drops the draft, clears dirty, closes
\* the confirmation and executes the queued action: a queued select of R2
\* leaves selection = R2 with the detail view open, a queued close leaves no
\* selection and the detail view closed; no draft and no queued action remain.
C3_DiscardRunsQueuedAction ==
  [][(last'.op = "discard" /\ pendingAction # NULL) =>
       /\ editedProduct' = NULL
       /\ ~hasUnsavedChanges'
       /\ ~showConfirmModal'
       /\ pendingAction' = NULL
       /\ pendingAction.kind = "select" =>
            selectedProduct' = pendingAction.product /\ showDetailPanel'
       /\ pendingAction.kind = "close" =>
            selectedProduct' = NULL /\ ~showDetailPanel']_vars

\* Discard has executed a queued select
C3_Witness ==
  /\ last.op = "discard" /\ last.pending = "select" /\ last.dirty
  /\ selectedProduct # NULL /\ showDetailPanel /\ editedProduct = NULL

\* C4: Cancel of the discard confirmation drops the queued action and leaves
\* selection, draft and dirty flag as they were.
C4_CancelDropsQueuedAction ==
  [][last'.op = "cancel" =>
       /\ pendingAction' = NULL
       /\ UNCHANGED <<selectedProduct, editedProduct, hasUnsavedChanges>>]_vars

\* C5: a draft exists only while a record is selected, and it was created by
\* editing that selected record.
C5_DraftTiedToSelection ==
  editedProduct # NULL =>
    /\ selectedProduct # NULL
    /\ draftOrigin = selectedProduct

\* C6: Save invoked while dirty leaves selection = the saved draft, no draft
\* and dirty = false.
C6_SaveWhileDirtyReachesViewing ==
  [][(last'.op = "save" /\ hasUnsavedChanges) =>
       /\ selectedProduct' # NULL
       /\ selectedProduct' = editedProduct
       /\ editedProduct' = NULL
       /\ ~hasUnsavedChanges']_vars

FieldMutations == {"update", "addNote", "removeNote", "crop"}

\* C7: a field mutation (typed edit, note add or remove, image replacement)
\* creates or updates the draft and sets dirty and changes nothing else of the
\* session, the collection or the analysis; the collection is changed only by
\* Save, Delete, exact-duplicate removal or the load.
C7_FieldMutationFrame ==
  [][/\ last'.op \in FieldMutations =>
          /\ UNCHANGED <<products, selectedProduct, showConfirmModal,
                         pendingAction, showDetailPanel, analysisVars>>
          /\ last'.acted => editedProduct' # NULL /\ hasUnsavedChanges'
          /\ ~last'.acted => UNCHANGED <<editedProduct, hasUnsavedChanges>>
     /\ products' # products =>
          last'.op \in {"save", "delete", "removeDuplicates", "load"}]_vars

\* the cropper has replaced the image in the draft, not in the collection
C7_Witness ==
  /\ last.op = "crop" /\ last.acted
  /\ editedProduct # NULL /\ editedProduct.image = CroppedUrl
  /\ selectedProduct.image # CroppedUrl
  /\ \A i \in 1..Len(products) : products[i].image # CroppedUrl

\* C8: Delete from the detail view removes the selected record at once, dirty
\* or not, and the selection becomes the first remaining record or none.
C8_DeleteRemovesSelected ==
  [][(last'.op = "delete" /\ last'.acted) =>
       /\ selectedProduct \notin Range(products')
       /\ selectedProduct' = IF Len(products') > 0 THEN products'[1] ELSE NULL]_vars

\* C9: Save never executes a queued navigation: the selection becomes the
\* saved draft, the detail view stays as it was, the queue is not consumed.
C9_SaveNeverRunsQueuedAction ==
  [][Saved =>
       /\ selectedProduct' = editedProduct
       /\ UNCHANGED <<showDetailPanel, pendingAction, showConfirmModal>>]_vars

\* a draft was saved while a close was queued, and the detail view is open
C9_Witness ==
  /\ last.op = "save" /\ last.acted /\ last.pending = "close"
  /\ showDetailPanel /\ selectedProduct # NULL /\ pendingAction # NULL

\* C10: dirty holds exactly when a draft exists and differs from the record
\* it was created from.
C10_DirtyIffDraftDiffers ==
  hasUnsavedChanges <=> (editedProduct # NULL /\ editedProduct # draftOrigin)

\* ------------------------------------------------------------------------
\* Properties of the Quality Analyzer
\* ------------------------------------------------------------------------
\* the defect list reported for a record: the mapping looked up by its identity
reported(issues, product) ==
  IF identity(product) \in DOMAIN issues THEN issues[identity(product)] ELSE <<>>

\* another record shares the lowercase slug or the lowercase title of record i
sharesKey(productsData, i) ==
  \E j \in 1..Len(productsData) :
    /\ j # i
    /\ \/ toLowerCase(productsData[j].slug) = toLowerCase(productsData[i].slug)
       \/ toLowerCase(productsData[j].title) = toLowerCase(productsData[i].title)

Loaded == ~isLoading /\ last.op # "loadFailed"

\* C11: the defect list reported for a record holds `duplicate` exactly when
\* another record shares its lowercase slug or lowercase title, and holds it
\* at most once.
C11_DuplicateIffSharedKey ==
  \A i \in 1..Len(products) :
    LET tags == reported(checkDataQuality(products), products[i])
    IN /\ ("duplicate" \in Range(tags)) <=> sharesKey(products, i)
       /\ Cardinality({k \in 1..Len(tags) : tags[k] = "duplicate"}) <= 1

\* C12: looking a record's identity up in the Analyzer's mapping returns that
\* record's own tags, and there is no entry when the record has no defect.
C12_LookupReturnsOwnTags ==
  \A i \in 1..Len(products) :
    LET issues == checkDataQuality(products)
        own == productIssues(products, products[i])
    IN /\ reported(issues, products[i]) = own
       /\ own = <<>> => identity(products[i]) \notin DOMAIN issues

\* the check order as the specification lists it
SpecTagOrder ==
  <<"duplicate", "no-price-15ml", "no-price-30ml", "no-price-50ml",
    "no-prices", "no-image", "no-notes", "no-brand", "no-slug", "no-title">>

\* the check order with no-price-at-all as the last check
CodeTagOrder ==
  <<"duplicate", "no-price-15ml", "no-price-30ml", "no-price-50ml",
    "no-image", "no-notes", "no-brand", "no-slug", "no-title", "no-prices">>

position(order, tag) == CHOOSE p \in 1..Len(order) : order[p] = tag

\* tags is a selection of order, in the relative order of order
inOrder(tags, order) ==
  /\ Range(tags) \subseteq Range(order)
  /\ \A k, l \in 1..Len(tags) :
       k < l => position(order, tags[k]) < position(order, tags[l])

\* every tag list the Analyzer emits for the current collection
emittedLists ==
  LET issues == checkDataQuality(products)
  IN {issues[k] : k \in DOMAIN issues}
       \cup {productIssues(products, products[i]) : i \in 1..Len(products)}

\* C13 (as stated): every emitted tag list follows the order duplicate,
\* price-15, price-30, price-50, no-price-at-all, image, notes, brand, slug,
\* title.
C13_TagsInSpecOrder == \A tags \in emittedLists : inOrder(tags, SpecTagOrder)

\* C13 (amended): every emitted tag list follows the order duplicate,
\* price-15, price-30, price-50, image, notes, brand, slug, title,
\* no-price-at-all.
C13_TagsInCodeOrder == \A tags \in emittedLists : inOrder(tags, CodeTagOrder)

\* a loaded record carries no-price-at-all together with tags of later checks
C13_Witness ==
  /\ Loaded
  /\ \E k \in DOMAIN dataQualityIssues :
       /\ dataQualityIssues[k] \in emittedLists
       /\ {"no-prices", "no-image", "no-title"} \subseteq Range(dataQualityIssues[k])

\* C14: in every state after the load, the defect mapping and the cluster
\* colors the view uses are those of the Analyzer and the Duplicate Grouping
\* applied to the current collection.
C14_AnalysisFollowsCollection ==
  Loaded =>
    /\ dataQualityIssues = checkDataQuality(products)
    /\ duplicateGroups = duplicateGroupsOf(products)

\* ------------------------------------------------------------------------
\* Properties of the Exact-Duplicate Collapse
\* ------------------------------------------------------------------------
Removal == last'.op = "removeDuplicates"

\* the positions of the first occurrences: no earlier record has the same 14 fields
firstOccurrences(seq) ==
  {i \in 1..Len(seq) : \A j \in 1..(i - 1) : seq[j] # seq[i]}

\* the subsequence of seq at the positions keep, in the order of seq
restrict(seq, keep) ==
  [k \in 1..Cardinality(keep) |->
     seq[CHOOSE i \in keep : Cardinality({j \in keep : j < i}) = k - 1]]

\* C15: removal keeps, in the original order, exactly the first occurrence of
\* each distinct record (all 14 fields); the number discarded is the count
\* detection reports on the same collection, and the new length is the old
\* length minus that count.
C15_RemovalKeepsFirstOccurrences ==
  [][Removal =>
       /\ products' = restrict(products, firstOccurrences(products))
       /\ Len(products) - Len(products') = detectCompleteDuplicates(products)
       /\ last'.acted =>
            outcome'.alert.count = detectCompleteDuplicates(products)]_vars

\* one of three records was discarded and two different records remain
C15_Witness ==
  /\ last.op = "removeDuplicates" /\ last.acted
  /\ outcome.alert = [kind |-> "removed", count |-> 1]
  /\ Len(products) = 2 /\ products[1] # products[2]

\* C16: detection run on the output of a removal reports zero, removing again
\* from that output gives the same collection, and a removal that follows a
\* removal changes nothing.
C16_CollapseIdempotent ==
  [][Removal =>
       /\ detectCompleteDuplicates(products') = 0
       /\ uniqueProductsOf(products', 1, {}) = products'
       /\ last.op = "removeDuplicates" =>
            products' = products /\ ~last'.acted]_vars

\* a removal has discarded two copies of one record
C16_Witness ==
  /\ last.op = "removeDuplicates" /\ last.acted
  /\ outcome.alert = [kind |-> "removed", count |-> 2]
  /\ detectCompleteDuplicates(products) = 0

\* C17: removal on a collection without exact duplicate changes neither the
\* collection nor the defect mapping, exports nothing and reports "no
\* duplicates found"; a removal that discards records reports "removed N".
C17_NothingToRemove ==
  [][Removal =>
       IF detectCompleteDuplicates(products) = 0
       THEN /\ UNCHANGED <<products, dataQualityIssues, duplicateGroups>>
            /\ outcome'.download = NULL
            /\ outcome'.alert = [kind |-> "none"]
       ELSE /\ outcome'.alert.kind = "removed"
            /\ outcome'.alert.count > 0]_vars

\* the removal button was pressed on a collection without exact duplicate
C17_Witness ==
  /\ last.op = "removeDuplicates" /\ ~last.acted
  /\ outcome = [alert |-> [kind |-> "none"], download |-> NULL]
  /\ products # <<>>

\* C18: after a removal that discards a record, the defect mapping and the
\* cluster colors are those of the new collection, and the exported file holds
\* the header and exactly the kept records, in their kept order.
C18_RemovalReanalysesAndExports ==
  [][(Removal /\ last'.acted) =>
       /\ dataQualityIssues' = checkDataQuality(products')
       /\ duplicateGroups' = duplicateGroupsOf(products')
       /\ outcome'.download # NULL
       /\ LET csv == outcome'.download.csv
          IN /\ Len(csv) = Len(products') + 1
             /\ csv[1] = Columns
             /\ \A i \in 1..Len(products') :
                  \A c \in 1..Len(Columns) :
                    csv[i + 1][c] = products'[i][Columns[c]]]_vars

\* a removal left a collection whose defect mapping differs from the one of
\* the collection before it
C18_Witness ==
  /\ last.op = "removeDuplicates" /\ last.acted
  /\ outcome.download # NULL
  /\ Len(outcome.download.csv) = Len(products) + 1
  /\ "duplicate" \notin UNION {Range(dataQualityIssues[k]) : k \in DOMAIN dataQualityIssues}

\* ------------------------------------------------------------------------
\* Properties of the View Pipeline
\* ------------------------------------------------------------------------
countIn(seq, r) == Cardinality({i \in 1..Len(seq) : seq[i] = r})

\* the view holds every record that satisfies keep, as often as the collection
\* holds it, and no other record
viewIsExactly(keep(_)) ==
  \A r \in Range(products) \cup Range(View) :
    countIn(View, r) = IF keep(r) THEN countIn(products, r) ELSE 0

searchMatches(r) ==
  \E f \in {"title", "brand", "slug"} :
    includes(toLowerCase(r[f]), toLowerCase(debouncedSearchTerm))

\* the record has an entry in the Analyzer's mapping of the collection
hasDefect(r) == identity(r) \in DOMAIN checkDataQuality(products)

\* C19: with issues-only set and no anchor, the view holds exactly the
\* search-matching records that have a defect according to the Analyzer,
\* including a record whose identity is the fallback "unknown".
C19_IssuesOnlyKeepsDefective ==
  (Loaded /\ showQualityFilter /\ duplicateFilter = NULL) =>
    viewIsExactly(LAMBDA r : searchMatches(r) /\ hasDefect(r))

\* anchors a caller may pass to the pipeline
AnchorInputs ==
  {NULL, [value |-> <<"a">>], [value |-> <<"A">>], [value |-> <<"x">>]}

\* C20: with issues-only set and an anchor set, the view holds exactly the
\* search-matching records whose lowercase slug or lowercase title is the
\* lowercase anchor, with or without defects; with issues-only not set the
\* view is the same whatever the anchor.
C20_AnchorNarrowsView ==
  /\ (Loaded /\ showQualityFilter /\ duplicateFilter # NULL) =>
       viewIsExactly(LAMBDA r :
         /\ searchMatches(r)
         /\ toLowerCase(duplicateFilter.value)
              \in {toLowerCase(r.slug), toLowerCase(r.title)})
  /\ Loaded =>
       \A anchor \in AnchorInputs :
         filteredProductsOf(products, debouncedSearchTerm, FALSE, anchor,
                            dataQualityIssues)
           = filteredProductsOf(products, debouncedSearchTerm, FALSE, NULL,
                                dataQualityIssues)

\* an anchor taken from a row with an upper-case slug is set, and the view
\* holds a record that has no defect of its own next to one that has
C20_Witness ==
  /\ Loaded /\ showQualityFilter /\ duplicateFilter # NULL
  /\ duplicateFilter.value # toLowerCase(duplicateFilter.value)
  /\ \E r \in Range(View) : productIssues(products, r) = <<>>
  /\ \E r \in Range(View) : productIssues(products, r) # <<>>

\* the rows that show a duplicate tag
taggedRows == {i \in 1..Len(rows) : "duplicate" \in Range(rows[i].issues)}

\* the value a click on the duplicate tag of the displayed record R anchors on
anchorOf(R) == IF R.slug # <<>> THEN R.slug ELSE R.title

\* C21: a click on the duplicate tag of a displayed record R sets issues-only
\* and the anchor to R's slug if non-empty, else R's title; the view is then
\* exactly the search-matching records whose lowercase slug or lowercase title
\* is that value in lowercase, and R is in it.
C21_TagClickAnchorsOnRecord ==
  [][last'.op = "duplicateTag" =>
       /\ showQualityFilter'
       /\ duplicateFilter' # NULL
       /\ \E i \in taggedRows : duplicateFilter'.value = anchorOf(rows[i].product)
       /\ \A view \in {View'} :
            /\ \A i \in taggedRows :
                 duplicateFilter'.value = anchorOf(rows[i].product) =>
                   rows[i].product \in Range(view)
            /\ \A r \in Range(products') \cup Range(view) :
                 countIn(view, r) =
                   IF /\ \E f \in {"title", "brand", "slug"} :
                           includes(toLowerCase(r[f]), toLowerCase(debouncedSearchTerm'))
                      /\ toLowerCase(duplicateFilter'.value)
                           \in {toLowerCase(r.slug), toLowerCase(r.title)}
                   THEN countIn(products', r) ELSE 0]_vars

\* the tag of a record without slug was clicked: the anchor is its title, and
\* the view holds it
C21_Witness ==
  /\ last.op = "duplicateTag"
  /\ \E r \in Range(View) :
       r.slug = <<>> /\ r.title # <<>> /\ duplicateFilter = [value |-> r.title]

\* record at position i of seq shares its lowercase slug with another position
slugTwin(seq, i) ==
  \E k \in 1..Len(seq) :
    k # i /\ toLowerCase(seq[k].slug) = toLowerCase(seq[i].slug)

\* record at position i of seq shares its lowercase title with another position
titleTwin(seq, i) ==
  \E k \in 1..Len(seq) :
    k # i /\ toLowerCase(seq[k].title) = toLowerCase(seq[i].title)

lowerSlug(r) == toLowerCase(r.slug)

lowerTitle(r) == toLowerCase(r.title)

\* C23: in the view, the records of one slug-cluster are adjacent and the
\* slug-clusters are in ascending order of lowercase slug; likewise the records
\* of one title-cluster are adjacent and the title-clusters are in ascending
\* order of lowercase title.
C23_ClustersAdjacentAndAscending ==
  Loaded =>
    \A view \in {View} :
      \A i, j \in 1..Len(view) :
        i < j =>
          /\ (slugTwin(view, i) /\ lowerSlug(view[i]) = lowerSlug(view[j])) =>
               \A k \in i..j : lowerSlug(view[k]) = lowerSlug(view[i])
          /\ (slugTwin(view, i) /\ slugTwin(view, j)) =>
               localeCompare(lowerSlug(view[i]), lowerSlug(view[j])) <= 0
          /\ (titleTwin(view, i) /\ lowerTitle(view[i]) = lowerTitle(view[j])) =>
               \A k \in i..j : lowerTitle(view[k]) = lowerTitle(view[i])
          /\ (titleTwin(view, i) /\ titleTwin(view, j)) =>
               localeCompare(lowerTitle(view[i]), lowerTitle(view[j])) <= 0

clusterKeys(seq) ==
  {toLowerCase(seq[i].slug) : i \in {j \in 1..Len(seq) : slugTwin(seq, j)}}
    \cup {toLowerCase(seq[i].title) : i \in {j \in 1..Len(seq) : titleTwin(seq, j)}}

\* encounter n of a pass over the records in order, slug before title:
\* encounter 2i-1 is the slug of record i, encounter 2i its title
encounters(seq, key, n) ==
  LET i == (n + 1) \div 2
  IN IF n % 2 = 1 THEN slugTwin(seq, i) /\ toLowerCase(seq[i].slug) = key
     ELSE titleTwin(seq, i) /\ toLowerCase(seq[i].title) = key

firstSeen(seq, key) ==
  CHOOSE n \in 1..(2 * Len(seq)) :
    encounters(seq, key, n) /\ \A m \in 1..(n - 1) : ~encounters(seq, key, m)

\* C25: the k-th cluster key first encountered over the records in original
\* order (slug before title within a record) has color palette[(k-1) mod 17],
\* whatever the cluster sizes, so the mapping is determined by the sequence
C25_ColorsInFirstSeenOrder ==
  Loaded =>
    \A seq \in {products} : \A keys \in {clusterKeys(seq)} :
      /\ DOMAIN duplicateGroups = keys
      /\ \A key \in keys :
           LET k == Cardinality({other \in keys :
                      firstSeen(seq, other) <= firstSeen(seq, key)})
           IN duplicateGroups[key] = duplicateColors[((k - 1) % PaletteSize) + 1]

C25_Witness ==
  /\ Loaded
  /\ Cardinality(DOMAIN duplicateGroups) = PaletteSize + 1
  /\ duplicateGroups[<<"c">>] = duplicateColors[1]
  /\ duplicateGroups[<<"m">>] = duplicateColors[17]
  /\ duplicateGroups[<<"w">>] = duplicateColors[1]

\* the duplicate clusters of a sequence, each named by its axis and its key
clusters(seq) ==
  {<<"slug", toLowerCase(seq[i].slug)>> : i \in {j \in 1..Len(seq) : slugTwin(seq, j)}}
    \cup {<<"title", toLowerCase(seq[i].title)>> : i \in {j \in 1..Len(seq) : titleTwin(seq, j)}}

\* the color the grouping holds for a cluster
clusterColor(groups, cluster) ==
  IF cluster[2] \in DOMAIN groups THEN groups[cluster[2]] ELSE "undefined"

\* C26: when the dataset has at most 17 clusters, every cluster has a color
\* and no two distinct clusters have the same one, a slug-cluster and a
\* title-cluster with the same key string included
C26_ClustersColoredApart ==
  Loaded =>
    \A cs \in {clusters(products)} :
      Cardinality(cs) <= PaletteSize =>
        \A c, d \in cs :
          /\ clusterColor(duplicateGroups, c) # "undefined"
          /\ c # d => clusterColor(duplicateGroups, c) # clusterColor(duplicateGroups, d)

\* C27: a displayed record has the color of its slug-cluster if it is in one,
\* else the color of its title-cluster if it is in one, else no color
C27_RowColorIsClusterColor ==
  Loaded =>
    \A view \in {View} : \A i \in 1..Len(view) :
      LET slug == toLowerCase(view[i].slug)
          title == toLowerCase(view[i].title)
      IN colorFor(duplicateGroups, view[i]) =
           IF slugCounts(products, slug) > 1
           THEN clusterColor(duplicateGroups, <<"slug", slug>>)
           ELSE IF titleCounts(products, title) > 1
                THEN clusterColor(duplicateGroups, <<"title", title>>)
                ELSE "undefined"

spaces(n) == [j \in 1..n |-> " "]

\* the cell is empty, or is "", "-", "0" or "N/A" between spaces
priceInvalid(price) ==
  \E core \in {<<>>, <<"-">>, <<"0">>, <<"N", "/", "A">>} :
    \E m, n \in 0..Len(price) : price = spaces(m) \o core \o spaces(n)

\* C28: a record's defect list holds the tag of a price field exactly when
\* the field is empty or, trimmed, is "", "-", "0" or "N/A", and holds
\* `no-prices` (with the three price tags) exactly when all three fields are so
C28_PriceTagsIffInvalid ==
  Loaded =>
    \A i \in 1..Len(products) :
      LET r == products[i]
          tags == Range(reported(dataQualityIssues, r))
      IN /\ "no-price-15ml" \in tags <=> priceInvalid(r.price_15ml)
         /\ "no-price-30ml" \in tags <=> priceInvalid(r.price_30ml)
         /\ "no-price-50ml" \in tags <=> priceInvalid(r.price_50ml)
         /\ "no-prices" \in tags <=>
              /\ priceInvalid(r.price_15ml)
              /\ priceInvalid(r.price_30ml)
              /\ priceInvalid(r.price_50ml)

C28_Witness ==
  /\ Loaded
  /\ Len(products) = 1
  /\ products[1].price_15ml = <<"N", "/", "A">>
  /\ products[1].price_30ml = <<" ", "0", " ">>
  /\ products[1].price_50ml = <<" ">>
  /\ {"no-price-15ml", "no-price-30ml", "no-price-50ml", "no-prices"}
       \subseteq Range(reported(dataQualityIssues, products[1]))

\* C29: the view holds the records that match the debounced term; when a
\* timer fires the debounced term becomes the search text of that moment (a
\* value typed earlier and replaced since is never applied) and the table
\* shows the view for it; when the search text stays the same from some point
\* on, the debounced term becomes that text and stays so
C29_DebouncedSearch ==
  /\ [](Loaded /\ ~showQualityFilter => viewIsExactly(LAMBDA r : searchMatches(r)))
  /\ [][last'.op = "debounce" =>
          /\ debouncedSearchTerm' = searchTerm'
          /\ [i \in 1..Len(rows') |-> rows'[i].product] = View']_vars
  /\ \A value \in TypedTerms :
       <>[](searchTerm = value) => <>[](debouncedSearchTerm = value)

C29_Witness ==
  /\ Loaded
  /\ last.op = "debounce"
  /\ searchTerm = <<"a">> /\ debouncedSearchTerm = <<"a">>
  /\ timers = {}
  /\ Len(View) > 0 /\ Len(View) < Len(products)

\* C30: Save changes at most one entry of the collection, and no entry that
\* is not the selected record, whatever slugs the other records carry
C30_SaveChangesOneEntry ==
  [][Saved =>
       /\ Len(products') = Len(products)
       /\ Cardinality({i \in 1..Len(products) : products'[i] # products[i]}) <= 1
       /\ \A i \in 1..Len(products) :
            products[i] # selectedProduct => products'[i] = products[i]]_vars

\* C31: a confirmed Delete from the detail view removes one record, the
\* selected one, and leaves every other record in place, whatever the draft's
\* slug is and whatever slugs the other records carry
C31_DeleteRemovesOnlySelected ==
  [][(last'.op = "delete" /\ last'.acted) =>
       /\ Len(products') = Len(products) - 1
       /\ \A r \in Range(products) \cup Range(products') :
            countIn(products', r) =
              countIn(products, r) - (IF r = selectedProduct THEN 1 ELSE 0)]_vars

\* C32: Discard pressed in the unsaved-changes popup (no confirmation open)
\* drops the draft and clears dirty, and leaves the selection, the detail view
\* and the collection as they are, whatever happened earlier in the session
C32_PopupDiscardOnlyDropsDraft ==
  [][(last'.op = "discard" /\ ~showConfirmModal) =>
       /\ editedProduct' = NULL
       /\ hasUnsavedChanges' = FALSE
       /\ UNCHANGED <<selectedProduct, showDetailPanel, products>>]_vars

\* C33: in every state the dirty flag is set exactly when a draft exists
C33_DirtyIffDraft == hasUnsavedChanges <=> editedProduct # NULL

\* C37: the discard confirmation is open only while the session is dirty
C37_ConfirmOnlyWhileDirty == showConfirmModal => hasUnsavedChanges

\* C34: in every state after the load the exact-duplicate count shown in the
\* banner is the number of removal candidates of the current collection (so
\* it is 0 after a removal)
C34_CountFollowsCollection ==
  Loaded => completeDuplicates = detectCompleteDuplicates(products)

\* C35: when the load completes, the defect mapping, the cluster colors and
\* the exact-duplicate count are those computed from the loaded collection,
\* on every load path
C35_LoadAnalysesCollection ==
  [][last'.op = "load" =>
       /\ dataQualityIssues' = checkDataQuality(products')
       /\ duplicateGroups' = duplicateGroupsOf(products')
       /\ completeDuplicates' = detectCompleteDuplicates(products')]_vars

\* the events after which the view is computed anew from its inputs
viewEvents == {"search", "debounce", "toggleFilter", "clearFilter", "duplicateTag"}

C38_AnchorOnlyWithIssuesOnly == duplicateFilter # NULL => showQualityFilter

\* an anchor set by a tag click is still set after the search text changed
C38_Witness ==
  /\ duplicateFilter # NULL /\ showQualityFilter
  /\ last.op = "search"

\* ------------------------------------------------------------------------
\* Properties of the generic CSV editor
\* ------------------------------------------------------------------------
\* the record TableView displayed at the row the last event was invoked on
displayedRecord == filteredRows[csvLast'.row + 1]

\* C39: a cell edit invoked on displayed row i writes the value into the
\* record displayed at row i and into no other, and a confirmed row delete
\* invoked on displayed row i removes the record displayed at row i and no
\* other, whether or not a search filter hides rows
C39_ActsOnDisplayedRecord ==
  [][/\ (csvLast'.op = "cellChange") =>
          csvData'.rows = [k \in 1..Len(csvData.rows) |-> IF csvData.rows[k].id = displayedRecord.id THEN [csvData.rows[k] EXCEPT !.name = csvLast'.value] ELSE csvData.rows[k]]
     /\ (csvLast'.op = "deleteRow" /\ csvLast'.acted) =>
          csvData'.rows = SelectSeq(csvData.rows, LAMBDA row : row.id # displayedRecord.id)]_vars

\* the records the selected indices designate among the displayed rows
designated == {filteredRows[i + 1].id : i \in selectedRows \cap displayedIndices}

\* C40: every selected index is the index of a displayed row, the records
\* the selection designates are records the user checked, and a confirmed
\* Delete Selected removes exactly the checked records
C40_SelectionDesignatesChecked ==
  /\ [](selectedRows \subseteq displayedIndices /\ designated \subseteq checkedRecords)
  /\ [][(csvLast'.op = "deleteSelected" /\ csvLast'.acted) =>
          idsOf(csvData.rows) \ idsOf(csvData'.rows) = checkedRecords]_vars

====
